---------------------------- MODULE Spec2Model ----------------------------
(***************************************************************************)
(* Model of the liigagoalies Home Assistant integration:                   *)
(*   src/__init__.py  config-entry setup/unload and the                    *)
(*                    LiigaGoalieStatsDataUpdateCoordinator (fetch,        *)
(*                    schema detection, leaderboard building)              *)
(*   src/sensor.py    LiigaGoalieStatsLeaderboardSensor (read-only view)   *)
(*                                                                         *)
(* JSON values are tagged records.  Python str values are sequences of     *)
(* one-character strings, so that replace() and float() are computed.      *)
(* Python floats are fixed-point integers in units of 1/Scale.             *)
(***************************************************************************)
EXTENDS Integers, Sequences, FiniteSets, TLC

VARIABLES
    categories,                \* coordinator.categories
    top_n,                     \* coordinator.top_n
    data,                      \* coordinator.data (DataUpdateCoordinator)
    last_update_success,       \* coordinator.last_update_success
    last_update_success_time,  \* coordinator.last_update_success_time
    registered,                \* hass.data[DOMAIN][entry.entry_id] is set
    not_ready,                 \* async_setup_entry raised ConfigEntryNotReady
    pc,                        \* position of the coordinator's flow
    phase,                     \* "setup": the refresh of async_setup_entry,
                               \* "poll": a refresh of the interval timer
    now,                       \* datetime.now(), a logical clock
    resp,                      \* body of the 200 response of this cycle,
                               \* null while there is none
    goalies,                   \* local of _process_data
    result,                    \* local of _process_data
    idx,                       \* position of the loop over self.categories
    prev_data,                 \* log: coordinator.data when the cycle began
    last_cycle,                \* log: how the last completed cycle ended
    cycles                     \* log: the completed cycles of the
                               \* coordinator: time, kind, phase

vars == <<categories, top_n, data, last_update_success,
          last_update_success_time, registered, not_ready, pc, phase, now,
          resp, goalies, result, idx, prev_data, last_cycle, cycles>>

-----------------------------------------------------------------------------
(* Bounds *)

MaxCycles == 3      \* refresh cycles in one behaviour of Spec
MaxTopN == 2        \* largest configured top_n
MaxPlayers == 3     \* longest player list of a payload in SpecBuild

Scale == 100        \* fixed-point unit of a float: 92.3 is 9230

-----------------------------------------------------------------------------
(* JSON values *)

JNull == [t |-> "null"]
JBool(b) == [t |-> "bool", b |-> b]
JNum(n) == [t |-> "num", n |-> n]
JStr(s) == [t |-> "str", s |-> s]
JList(l) == [t |-> "list", l |-> l]
JObj(o) == [t |-> "obj", o |-> o]

EmptyMap == [k \in {} |-> JNull]

\* dict.get(key, default)
Get(o, key, default) == IF key \in DOMAIN o THEN o[key] ELSE default

\* Python truth value of a JSON value
Truthy(v) ==
    CASE v.t = "null" -> FALSE
      [] v.t = "bool" -> v.b
      [] v.t = "num" -> v.n # 0
      [] v.t = "str" -> v.s # <<>>
      [] v.t = "list" -> v.l # <<>>
      [] v.t = "obj" -> DOMAIN v.o # {}

-----------------------------------------------------------------------------
(* str.replace and float() on text over digits, ',', '.', '%', ' ', 'x' *)

Digits == {"0", "1", "2", "3", "4", "5", "6", "7", "8", "9"}

DigitVal(c) ==
    CASE c = "0" -> 0 [] c = "1" -> 1 [] c = "2" -> 2 [] c = "3" -> 3
      [] c = "4" -> 4 [] c = "5" -> 5 [] c = "6" -> 6 [] c = "7" -> 7
      [] c = "8" -> 8 [] c = "9" -> 9

\* s.replace(from, to) for one-character from and to
ReplaceChar(s, from, to) ==
    [i \in 1..Len(s) |-> IF s[i] = from THEN to ELSE s[i]]

\* s.replace(ch, '')
RECURSIVE RemoveChar(_, _)
RemoveChar(s, ch) ==
    IF s = <<>> THEN <<>>
    ELSE IF Head(s) = ch THEN RemoveChar(Tail(s), ch)
    ELSE <<Head(s)>> \o RemoveChar(Tail(s), ch)

\* str.strip() of blanks
RECURSIVE LStrip(_)
LStrip(s) ==
    IF s # <<>> /\ Head(s) = " " THEN LStrip(Tail(s)) ELSE s

RECURSIVE RStrip(_)
RStrip(s) ==
    IF s # <<>> /\ s[Len(s)] = " " THEN RStrip(SubSeq(s, 1, Len(s) - 1)) ELSE s

Strip(s) == RStrip(LStrip(s))

\* value.replace(',', '.').replace('%', '')
CleanText(s) == RemoveChar(ReplaceChar(s, ",", "."), "%")

DotAt(s) == IF \E i \in 1..Len(s) : s[i] = "."
            THEN CHOOSE i \in 1..Len(s) : s[i] = "." ELSE 0

\* float(text) succeeds: blanks around, then digits with at most one point
\* and at least one digit
FloatParses(text) ==
    LET s == Strip(text) IN
    /\ \A i \in 1..Len(s) : s[i] \in Digits \cup {"."}
    /\ Cardinality({i \in 1..Len(s) : s[i] = "."}) <= 1
    /\ \E i \in 1..Len(s) : s[i] \in Digits

RECURSIVE DigitsValue(_)
DigitsValue(s) ==
    IF s = <<>> THEN 0
    ELSE 10 * DigitsValue(SubSeq(s, 1, Len(s) - 1)) + DigitVal(s[Len(s)])

\* the first two fraction digits, in units of 1/Scale
FracValue(f) ==
    (IF Len(f) >= 1 THEN 10 * DigitVal(f[1]) ELSE 0)
    + (IF Len(f) >= 2 THEN DigitVal(f[2]) ELSE 0)

\* float(text) where FloatParses(text)
FloatValue(text) ==
    LET s == Strip(text)
        d == DotAt(s)
        ip == IF d = 0 THEN s ELSE SubSeq(s, 1, d - 1)
        fp == IF d = 0 THEN <<>> ELSE SubSeq(s, d + 1, Len(s))
    IN DigitsValue(ip) * Scale + FracValue(fp)

-----------------------------------------------------------------------------
(* Field Normalizer *)

HasFieldOnly(player, field) == field \in DOMAIN player

\* _has_valid_field(player, field)
HasValidField(player, field) ==
    IF field \notin DOMAIN player THEN FALSE
    ELSE LET value == player[field] IN
         CASE value.t = "null" -> FALSE
           [] value.t = "str" -> FloatParses(CleanText(value.s))
           [] value.t = "num" -> TRUE
           [] value.t = "bool" -> TRUE
           [] OTHER -> FALSE          \* float(list), float(dict): TypeError

\* _safe_get_value(player, field)
SafeGetValue(player, field) ==
    LET value == Get(player, field, JNum(0)) IN
    CASE value.t = "str" ->
             IF FloatParses(CleanText(value.s))
             THEN FloatValue(CleanText(value.s)) ELSE 0
      [] value.t = "null" -> 0
      [] value.t = "num" -> value.n
      [] value.t = "bool" -> IF value.b THEN Scale ELSE 0
      [] OTHER -> 0     \* not reached: _has_valid_field rejects these first

-----------------------------------------------------------------------------
(* Schema Detector *)

\* [p for p in v if p.get('goalkeeper', False)] raises: v is not iterable
\* (TypeError), or one of its items has no get (AttributeError)
IterRaises(v) ==
    CASE v.t = "list" -> \E i \in 1..Len(v.l) : v.l[i].t # "obj"
      [] v.t = "str" -> v.s # <<>>
      [] v.t = "obj" -> DOMAIN v.o # {}
      [] OTHER -> TRUE

IsGoalkeeper(p) == Truthy(Get(p.o, "goalkeeper", JBool(FALSE)))

\* the comprehension's value where it does not raise
KeepGoalkeepers(v) ==
    IF v.t = "list"
    THEN LET kept == SelectSeq(v.l, IsGoalkeeper)
         IN [i \in 1..Len(kept) |-> kept[i].o]
    ELSE <<>>

PlayerListOfNoPlayers(body) ==
    CASE body.t = "list" -> [found |-> TRUE, v |-> body]
      [] body.t = "obj" /\ "playerStats" \in DOMAIN body.o ->
             [found |-> TRUE, v |-> body.o["playerStats"]]
      [] OTHER -> [found |-> FALSE, v |-> JNull]

\* which branch of the if/elif chain takes the payload
PlayerListOf(body) ==
    CASE body.t = "list" -> [found |-> TRUE, v |-> body]
      [] body.t = "obj" /\ "playerStats" \in DOMAIN body.o ->
             [found |-> TRUE, v |-> body.o["playerStats"]]
      [] body.t = "obj" /\ "players" \in DOMAIN body.o ->
             [found |-> TRUE, v |-> body.o["players"]]
      [] OTHER -> [found |-> FALSE, v |-> JNull]

\* the goalies of _process_data, or the exception leaving it
ExtractGoalies(body) ==
    LET src == PlayerListOf(body) IN
    IF ~src.found THEN [raises |-> FALSE, goalies |-> <<>>]
    ELSE IF IterRaises(src.v) THEN [raises |-> TRUE, goalies |-> <<>>]
    ELSE [raises |-> FALSE, goalies |-> KeepGoalkeepers(src.v)]

-----------------------------------------------------------------------------
(* Leaderboard Builder *)

CategoryNames == {"savepercentage", "shutouts", "goalsagainstavg", "wins",
                  "losses", "ties", "saves", "xgea", "games"}

category_mapping(category) ==
    CASE category = "savepercentage" -> "savePercentage"
      [] category = "shutouts" -> "shutOut"
      [] category = "goalsagainstavg" -> "goalsAgainstAvg"
      [] category = "wins" -> "gkWins"
      [] category = "losses" -> "gkLosses"
      [] category = "ties" -> "gkTies"
      [] category = "saves" -> "blockedOrSavedShots"
      [] category = "xgea" -> "xgea"
      [] category = "games" -> "games"

\* reverse_sort = category != "goalsagainstavg"
ReverseSort(category) == category # "goalsagainstavg"

\* where a stable sort puts x among the already sorted acc: behind every
\* element that does not have to follow it
InsertPos(acc, x, field, reverse) ==
    Cardinality({i \in 1..Len(acc) :
        IF reverse
        THEN SafeGetValue(acc[i], field) >= SafeGetValue(x, field)
        ELSE SafeGetValue(acc[i], field) <= SafeGetValue(x, field)})

RECURSIVE SortInto(_, _, _, _)
SortInto(acc, rest, field, reverse) ==
    IF rest = <<>> THEN acc
    ELSE LET x == Head(rest)
             k == InsertPos(acc, x, field, reverse)
         IN SortInto(SubSeq(acc, 1, k) \o <<x>> \o SubSeq(acc, k + 1, Len(acc)),
                     Tail(rest), field, reverse)

SortedGoaliesAscending(valid_goalies, field, reverse) ==
    SortInto(<<>>, valid_goalies, field, FALSE)

\* sorted(valid_goalies, key=_safe_get_value, reverse=reverse_sort)
SortedGoalies(valid_goalies, field, reverse) ==
    SortInto(<<>>, valid_goalies, field, reverse)

TakeAll(sorted_goalies, n) == sorted_goalies

\* sorted_goalies[:self.top_n] for top_n >= 0
TakeTop(sorted_goalies, n) ==
    SubSeq(sorted_goalies, 1, IF n < Len(sorted_goalies) THEN n
                              ELSE Len(sorted_goalies))

\* the text an f-string gives a name field (text, null or absent here)
FormatText(v) ==
    CASE v.t = "str" -> v.s
      [] v.t = "null" -> <<"N", "o", "n", "e">>
      [] OTHER -> <<>>

Unknown == <<"U", "n", "k", "n", "o", "w", "n">>
NoData == <<"N", "o", " ", "d", "a", "t", "a">>

\* one element of top_goalies; i is enumerate's counter
MakeEntry(i, goalie, field) ==
    [rank |-> i,
     name |-> Strip(FormatText(Get(goalie, "firstName", JStr(<<>>)))
                    \o <<" ">>
                    \o FormatText(Get(goalie, "lastName", JStr(<<>>)))),
     team |-> Get(goalie, "teamName",
                  Get(goalie, "teamShortName", JStr(Unknown))),
     value |-> SafeGetValue(goalie, field),
     games |-> Get(goalie, "games", JNum(0)),
     position |-> Get(goalie, "role", JStr(<<>>)),
     number |-> Get(goalie, "jersey", JStr(<<>>)),
     player_id |-> Get(goalie, "playerId", JStr(<<>>)),
     image_url |-> Get(goalie, "pictureUrl", JStr(<<>>)),
     wins |-> Get(goalie, "gkWins", JNum(0)),
     losses |-> Get(goalie, "gkLosses", JNum(0)),
     ties |-> Get(goalie, "gkTies", JNum(0))]

\* the body of the loop over self.categories for a mapped category
BuildLeaderboard(gs, category, topn) ==
    LET api_field == category_mapping(category)
        IsValid(p) == HasValidField(p, api_field)
        valid_goalies == SelectSeq(gs, IsValid)
        sorted_goalies == SortedGoalies(valid_goalies, api_field,
                                        ReverseSort(category))
        top == TakeTop(sorted_goalies, topn)
    IN [i \in 1..Len(top) |-> MakeEntry(i, top[i], api_field)]

\* result[category] = top_goalies
PutCategory(res, category, board) ==
    [c \in DOMAIN res \cup {category} |->
        IF c = category THEN board ELSE res[c]]

\* one pass of the loop: what it leaves in the local result and in the
\* coordinator's exposed data
BuildStepWritesData(exposed, res, gs, category, topn) ==
    LET board == BuildLeaderboard(gs, category, topn) IN
    IF category \in CategoryNames
    THEN [result |-> PutCategory(res, category, board),
          data |-> [none |-> FALSE,
                    map |-> PutCategory(exposed.map, category, board)]]
    ELSE [result |-> res, data |-> exposed]

BuildStep(exposed, res, gs, category, topn) ==
    IF category \in CategoryNames
    THEN [result |-> PutCategory(res, category,
                                 BuildLeaderboard(gs, category, topn)),
          data |-> exposed]
    ELSE [result |-> res, data |-> exposed]

RECURSIVE BuildFrom(_, _, _, _, _)
BuildFrom(res, gs, cats, topn, i) ==
    IF i > Len(cats) THEN res
    ELSE BuildFrom(BuildStep([none |-> TRUE, map |-> EmptyMap], res, gs,
                             cats[i], topn).result,
                   gs, cats, topn, i + 1)

\* _process_data(data): the dict it returns, or the exception leaving it
ProcessData(body, cats, topn) ==
    LET ex == ExtractGoalies(body) IN
    IF ex.raises THEN [raises |-> TRUE, result |-> EmptyMap]
    ELSE IF ex.goalies = <<>> THEN [raises |-> FALSE, result |-> EmptyMap]
    ELSE [raises |-> FALSE,
          result |-> BuildFrom(EmptyMap, ex.goalies, cats, topn, 1)]

-----------------------------------------------------------------------------
(* Leaderboard Sensor View *)

DataNone == [none |-> TRUE, map |-> EmptyMap]
DataOf(m) == [none |-> FALSE, map |-> m]

\* not self.coordinator.data or self.category not in self.coordinator.data
NoCategory(d, category) ==
    d.none \/ DOMAIN d.map = {} \/ category \notin DOMAIN d.map

\* LiigaGoalieStatsLeaderboardSensor.state
SensorState(d, category) ==
    IF NoCategory(d, category) THEN Unknown
    ELSE IF d.map[category] = <<>> THEN NoData
    ELSE d.map[category][1].name

\* CATEGORY_CONFIG[category]["precision"], 0 for a category not in it
Precision(category) ==
    CASE category = "savepercentage" -> 1
      [] category \in {"goalsagainstavg", "xgea"} -> 2
      [] OTHER -> 0

\* LiigaGoalieStatsLeaderboardSensor.extra_state_attributes; the value is
\* left as the number with the precision it is printed to
SensorAttributes(d, ts, category) ==
    IF NoCategory(d, category) THEN [empty |-> TRUE]
    ELSE LET leaders == d.map[category] IN
         [empty |-> FALSE,
          leaders |-> [i \in 1..Len(leaders) |->
                          [rank |-> leaders[i].rank,
                           name |-> leaders[i].name,
                           team |-> leaders[i].team,
                           value |-> leaders[i].value,
                           precision |-> Precision(category),
                           games |-> leaders[i].games,
                           record |-> <<leaders[i].wins, leaders[i].losses,
                                        leaders[i].ties>>]],
          last_updated |-> ts,
          category |-> category,
          leader_image_url |-> IF leaders = <<>> THEN JStr(<<>>)
                               ELSE leaders[1].image_url]

-----------------------------------------------------------------------------
(* Payloads of the feed *)

Virta ==
    [goalkeeper |-> JBool(TRUE), playerId |-> JNum(1),
     firstName |-> JStr(<<"M", "a", "t", "t", "i">>), lastName |-> JStr(<<"V", "i", "r", "t", "a">>),
     teamName |-> JStr(<<"K", "a", "r", "p", "a", "t">>),
     savePercentage |-> JStr(<<"9", "2", ",", "3", "%">>),
     goalsAgainstAvg |-> JNum(210), shutOut |-> JNum(300),
     games |-> JNum(2000), gkWins |-> JNum(1200)]

Koski ==
    [goalkeeper |-> JBool(TRUE), playerId |-> JNum(2),
     firstName |-> JStr(<<"J", "a", "n", "i">>), lastName |-> JStr(<<"K", "o", "s", "k", "i">>),
     teamName |-> JStr(<<"T", "a", "p", "p", "a", "r", "a">>),
     savePercentage |-> JNum(9100),
     goalsAgainstAvg |-> JStr(<<"1", ",", "9", "5">>), shutOut |-> JNum(0)]

\* a null save percentage, text that is no number, no gkWins field, a short
\* team name
Rookie ==
    [goalkeeper |-> JBool(TRUE), playerId |-> JNum(3),
     lastName |-> JStr(<<"A", "h", "o">>), teamShortName |-> JStr(<<"H", "I", "F", "K">>),
     savePercentage |-> JNull, shutOut |-> JStr(<<"x">>),
     goalsAgainstAvg |-> JStr(<<"3", ",", "5">>)]

\* ties Virta in shutouts and in the average; no name, no team
Backup ==
    [goalkeeper |-> JBool(TRUE), playerId |-> JNum(4),
     savePercentage |-> JStr(<<" ", "9", "0", ".", "5", "0", " ", "%">>),
     goalsAgainstAvg |-> JStr(<<"2", ".", "1">>), shutOut |-> JStr(<<"3">>)]

Skater ==
    [goalkeeper |-> JBool(FALSE), playerId |-> JNum(5),
     lastName |-> JStr(<<"S", "a", "l", "o">>),
     savePercentage |-> JNum(9900), goalsAgainstAvg |-> JNum(50),
     shutOut |-> JNum(900)]

\* no goalkeeper flag at all
NoFlag ==
    [playerId |-> JNum(6), savePercentage |-> JNum(9500),
     goalsAgainstAvg |-> JNum(100), shutOut |-> JNum(500)]

SamplePlayers == {Virta, Koski, Rookie, Backup, Skater, NoFlag}

\* every list of at most n player records
PlayerLists(n) ==
    UNION {[1..k -> {JObj(p) : p \in SamplePlayers}] : k \in 0..n}

\* the three shapes of the feed around one list of players
BareList(l) == JList(l)
UnderPlayerStats(l) == JObj([playerStats |-> JList(l)])
UnderPlayers(l) == JObj([players |-> JList(l), season |-> JNum(202500)])

BuildBodies ==
    UNION {{BareList(l), UnderPlayerStats(l), UnderPlayers(l)} :
           l \in PlayerLists(MaxPlayers)}

\* the bodies a poll of Spec may receive
CycleBodies ==
    {UnderPlayers(<<JObj(Virta), JObj(Koski)>>),
     BareList(<<JObj(Koski), JObj(Skater), JObj(Backup), JObj(Rookie)>>),
     UnderPlayerStats(<<JObj(Skater), JObj(NoFlag)>>),
     BareList(<<>>),
     JObj([teams |-> JList(<<>>)]),
     JObj([playerStats |-> JNull]),
     BareList(<<JObj(Virta), JNum(7)>>)}

DefaultCategories == <<"savepercentage", "shutouts", "goalsagainstavg">>

CategoryLists ==
    {DefaultCategories,
     <<"goalsagainstavg", "assists", "savepercentage">>,
     <<"wins", "shutouts">>}

-----------------------------------------------------------------------------
(* The coordinator and the config entry *)

Init ==
    /\ categories \in CategoryLists
    /\ top_n \in 1..MaxTopN
    /\ data = DataNone
    /\ last_update_success = TRUE
    /\ last_update_success_time = 0        \* None
    /\ registered = FALSE
    /\ not_ready = FALSE
    /\ pc = "new"
    /\ phase = "setup"
    /\ now = 1
    /\ resp = JNull
    /\ goalies = <<>>
    /\ result = EmptyMap
    /\ idx = 0
    /\ prev_data = DataNone
    /\ last_cycle = "none"
    /\ cycles = {}

UpdateTimestampAlways(d, ts, t) == t

\* if data: self.last_update_success_time = datetime.now()
UpdateTimestamp(d, ts, t) == IF DOMAIN d # {} THEN t ELSE ts

\* async_setup_entry after its refresh: raise ConfigEntryNotReady, or
\* register the coordinator and forward the platforms
SetupOutcome(success) ==
    IF success
    THEN [pc |-> "idle", registered |-> TRUE, not_ready |-> FALSE]
    ELSE [pc |-> "not_ready", registered |-> FALSE, not_ready |-> TRUE]

\* the end of async_refresh; outcome is what _fetch_data did: it returned
\* the dict out.result, or out.raises
EndCycle(kind, out) ==
    LET success == ~out.raises IN
    /\ last_update_success_time' =
           IF out.raises THEN last_update_success_time
           ELSE UpdateTimestamp(out.result, last_update_success_time, now)
    /\ data' = IF out.raises THEN data ELSE DataOf(out.result)
    /\ last_update_success' = success
    /\ IF phase = "setup"
       THEN /\ pc' = SetupOutcome(success).pc
            /\ registered' = SetupOutcome(success).registered
            /\ not_ready' = SetupOutcome(success).not_ready
            /\ phase' = IF success THEN "poll" ELSE "setup"
       ELSE /\ pc' = "idle"
            /\ UNCHANGED <<registered, not_ready, phase>>
    /\ now' = now + 1
    /\ last_cycle' = kind
    /\ cycles' = cycles \cup {[time |-> now, kind |-> kind, phase |-> phase]}
    /\ goalies' = <<>>
    /\ result' = EmptyMap
    /\ idx' = 0
    /\ UNCHANGED <<categories, top_n, resp, prev_data>>

Returned(d) == [raises |-> FALSE, result |-> d]
Raised == [raises |-> TRUE, result |-> EmptyMap]

\* async_setup_entry: await coordinator.async_refresh()
SetupRefresh ==
    /\ pc = "new"
    /\ pc' = "fetching"
    /\ prev_data' = data
    /\ resp' = JNull
    /\ UNCHANGED <<categories, top_n, data, last_update_success,
                   last_update_success_time, registered, not_ready, phase,
                   now, goalies, result, idx, last_cycle, cycles>>

\* the interval timer: coordinator.async_refresh()
PollRefresh ==
    /\ pc = "idle"
    /\ registered
    /\ now <= MaxCycles
    /\ pc' = "fetching"
    /\ prev_data' = data
    /\ resp' = JNull
    /\ UNCHANGED <<categories, top_n, data, last_update_success,
                   last_update_success_time, registered, not_ready, phase,
                   now, goalies, result, idx, last_cycle, cycles>>

\* resp.status != 200: _fetch_data returns {}
FetchNon200 ==
    /\ pc = "fetching"
    /\ EndCycle("non200", Returned(EmptyMap))

\* session.get raises aiohttp.ClientError: _fetch_data returns {}
FetchClientError ==
    /\ pc = "fetching"
    /\ EndCycle("client_error", Returned(EmptyMap))

\* any other exception of the request or of resp.json() (a total timeout is
\* asyncio.TimeoutError, a bad body is ValueError): UpdateFailed
FetchOtherError ==
    /\ pc = "fetching"
    /\ EndCycle("other_error", Raised)

\* a 200 response with a JSON body: _process_data begins
Fetch200(bodies) ==
    /\ pc = "fetching"
    /\ \E body \in bodies : resp' = body
    /\ pc' = "detect"
    /\ UNCHANGED <<categories, top_n, data, last_update_success,
                   last_update_success_time, registered, not_ready, phase,
                   now, goalies, result, idx, prev_data, last_cycle, cycles>>

\* _process_data up to the loop: the goalies of the payload
DetectSchema ==
    /\ pc = "detect"
    /\ LET ex == ExtractGoalies(resp) IN
       IF ex.raises THEN EndCycle("raised", Raised)
       ELSE IF ex.goalies = <<>> THEN EndCycle("ok", Returned(EmptyMap))
       ELSE /\ goalies' = ex.goalies
            /\ result' = EmptyMap
            /\ idx' = 1
            /\ pc' = "build"
            /\ UNCHANGED <<categories, top_n, data, last_update_success,
                           last_update_success_time, registered, not_ready,
                           phase, now, resp, prev_data, last_cycle, cycles>>

\* one pass of the loop over self.categories
BuildCategory ==
    /\ pc = "build"
    /\ idx <= Len(categories)
    /\ LET step == BuildStep(data, result, goalies, categories[idx], top_n)
       IN /\ result' = step.result
          /\ data' = step.data
    /\ idx' = idx + 1
    /\ UNCHANGED <<categories, top_n, last_update_success,
                   last_update_success_time, registered, not_ready, pc,
                   phase, now, resp, goalies, prev_data, last_cycle, cycles>>

\* return result, and the rest of the refresh
ReturnResult ==
    /\ pc = "build"
    /\ idx > Len(categories)
    /\ EndCycle("ok", Returned(result))

\* the host sets the entry up again after ConfigEntryNotReady: a new
\* coordinator
RetrySetup ==
    /\ pc = "not_ready"
    /\ now <= MaxCycles
    /\ pc' = "new"
    /\ data' = DataNone
    /\ last_update_success' = TRUE
    /\ last_update_success_time' = 0
    /\ not_ready' = FALSE
    /\ prev_data' = DataNone
    /\ last_cycle' = "none"
    /\ cycles' = {}
    /\ resp' = JNull
    /\ UNCHANGED <<categories, top_n, registered, phase, now, goalies,
                   result, idx>>

\* async_unload_entry with unload_ok
UnloadEntry ==
    /\ pc = "idle"
    /\ registered
    /\ registered' = FALSE
    /\ pc' = "unloaded"
    /\ UNCHANGED <<categories, top_n, data, last_update_success,
                   last_update_success_time, not_ready, phase, now, resp,
                   goalies, result, idx, prev_data, last_cycle, cycles>>

Next ==
    \/ SetupRefresh
    \/ PollRefresh
    \/ FetchNon200
    \/ FetchClientError
    \/ FetchOtherError
    \/ Fetch200(CycleBodies)
    \/ DetectSchema
    \/ BuildCategory
    \/ ReturnResult
    \/ RetrySetup
    \/ UnloadEntry

Spec == Init /\ [][Next]_vars

\* the first refresh of a coordinator that gets a 200 response, over every
\* payload of BuildBodies
NextBuild ==
    \/ SetupRefresh
    \/ Fetch200(BuildBodies)
    \/ DetectSchema
    \/ BuildCategory
    \/ ReturnResult

SpecBuild == Init /\ [][NextBuild]_vars

-----------------------------------------------------------------------------
(* Properties *)

FailedFetch == {"non200", "client_error"}

NonEmpty(d) == ~d.none /\ DOMAIN d.map # {}

\* C1: for an initialized coordinator exposing a non-empty result, a cycle
\* that ends in a non-200 response or a transport error leaves the exposed
\* result as it was, and every category's sensor state with it.
C1_FailedFetchKeepsResult ==
    (pc = "idle" /\ last_cycle \in FailedFetch /\ NonEmpty(prev_data)) =>
        /\ data = prev_data
        /\ \A i \in 1..Len(categories) :
               SensorState(data, categories[i])
                   = SensorState(prev_data, categories[i])

\* C2: the last-success timestamp is unset, or it is the completion time of
\* a cycle that received a 200 response and processed it; no cycle that
\* ended otherwise has set it.
C2_TimestampOnlyFromProcessed200 ==
    \/ last_update_success_time = 0
    \/ \E c \in cycles : c.time = last_update_success_time /\ c.kind = "ok"

\* a failed cycle has ended after a successful one and the timestamp is
\* still that of the successful one
C2_Witness ==
    /\ pc = "idle"
    /\ last_cycle \in FailedFetch
    /\ last_update_success_time # 0
    /\ last_update_success_time < now - 1

\* the complete outputs of _process_data for this configuration
WholeResults ==
    {ProcessData(body, categories, top_n).result : body \in CycleBodies}

\* C3: in every state, also between two passes of the per-category loop,
\* the exposed result is unset or the complete output of one cycle: every
\* leaderboard in it built from one payload.
C3_ExposedResultIsWhole ==
    data.none \/ data.map \in WholeResults

\* the loop is part-way through a payload whose leaderboards differ from the
\* exposed, non-empty ones
C3_Witness ==
    /\ pc = "build"
    /\ idx > 1
    /\ idx <= Len(categories)
    /\ NonEmpty(data)
    /\ \E c \in DOMAIN result : c \in DOMAIN data.map /\ result[c] # data.map[c]

\* C4: a cycle that received a 200 response and processed its body has
\* recorded its completion time as the last-success timestamp and exposes
\* the result it built, whatever the payload, an empty outcome included.
C4_Processed200IsRecorded ==
    (pc = "idle" /\ last_cycle = "ok") =>
        /\ last_update_success_time = now - 1
        /\ data = DataOf(ProcessData(resp, categories, top_n).result)

Better(category, a, b) ==
    IF category = "goalsagainstavg" THEN a < b ELSE a > b

ValidAt(gs, field) == {i \in 1..Len(gs) : HasValidField(gs[i], field)}

Unusable(p, field) ==
    \/ field \notin DOMAIN p
    \/ p[field].t = "null"
    \/ p[field].t = "str" /\ ~FloatParses(CleanText(p[field].s))

\* the goalies an entry of a leaderboard can stand for
SourcesOf(entry, gs) ==
    {i \in 1..Len(gs) : Get(gs[i], "playerId", JStr(<<>>)) = entry.player_id}

\* C6: an entry of a category's leaderboard stands for a record whose field
\* is usable and carries that field's own value, never a 0 put in for a
\* missing or unusable one; a record whose field is a numeric zero is in the
\* leaderboard unless the leaderboard is full.
C6_UnusableFieldExcluded ==
    pc = "build" =>
        \A c \in DOMAIN result :
            LET board == result[c]
                f == category_mapping(c)
            IN /\ \A k \in 1..Len(board) :
                      /\ SourcesOf(board[k], goalies) # {}
                      /\ \A i \in SourcesOf(board[k], goalies) :
                             /\ ~Unusable(goalies[i], f)
                             /\ goalies[i][f].t = "num" =>
                                    board[k].value = goalies[i][f].n
                             /\ goalies[i][f].t = "str" =>
                                    board[k].value
                                        = FloatValue(CleanText(goalies[i][f].s))
               /\ \A i \in 1..Len(goalies) :
                      (f \in DOMAIN goalies[i] /\ goalies[i][f] = JNum(0)) =>
                          \/ Len(board) = top_n
                          \/ \E k \in 1..Len(board) :
                                 /\ i \in SourcesOf(board[k], goalies)
                                 /\ board[k].value = 0

\* the shutouts leaderboard holds a numeric zero while a goalie with text
\* that is no number was left out
C6_Witness ==
    /\ pc = "build"
    /\ "shutouts" \in DOMAIN result
    /\ \E k \in 1..Len(result["shutouts"]) : result["shutouts"][k].value = 0
    /\ \E i \in 1..Len(goalies) :
           /\ Unusable(goalies[i], "shutOut")
           /\ \A k \in 1..Len(result["shutouts"]) :
                  i \notin SourcesOf(result["shutouts"][k], goalies)

Min(a, b) == IF a < b THEN a ELSE b

\* C7: with V valid records and top_n = N >= 1 a leaderboard has min(N, V)
\* entries, ranked 1, 2, ..., min(N, V) by position.
C7_TopNDenseRanks ==
    pc = "build" =>
        \A c \in DOMAIN result :
            /\ Len(result[c])
                   = Min(top_n,
                         Cardinality(ValidAt(goalies, category_mapping(c))))
            /\ \A k \in 1..Len(result[c]) : result[c][k].rank = k

\* one leaderboard was cut to top_n, another has fewer valid records
C7_Witness ==
    /\ pc = "build"
    /\ \E c \in DOMAIN result :
           Cardinality(ValidAt(goalies, category_mapping(c))) > top_n
    /\ \E c \in DOMAIN result :
           LET v == Cardinality(ValidAt(goalies, category_mapping(c)))
           IN v >= 1 /\ v < top_n /\ Len(result[c]) = v

\* the list of player records inside one of the three shapes
ShapedList(body) ==
    CASE body.t = "list" -> body.l
      [] body.t = "obj" /\ DOMAIN body.o = {"playerStats"} ->
             body.o["playerStats"].l
      [] body.t = "obj" /\ DOMAIN body.o = {"players", "season"} ->
             body.o["players"].l

\* the records of l whose goaltender flag is true, in their order
Flagged(l) ==
    LET IsFlagged(p) == "goalkeeper" \in DOMAIN p.o
                            /\ p.o["goalkeeper"] = JBool(TRUE)
        kept == SelectSeq(l, IsFlagged)
    IN [i \in 1..Len(kept) |-> kept[i].o]

\* C8: whichever of the three shapes carries a list of player records, the
\* goalies extracted are its records flagged as goaltenders, in their
\* order, and the result of the cycle is the leaderboards of those.
C8_ShapesExtractSameGoalies ==
    resp # JNull =>
        LET expected == Flagged(ShapedList(resp)) IN
        /\ pc = "build" => goalies = expected
        /\ pc = "idle" =>
               data.map = IF expected = <<>> THEN EmptyMap
                          ELSE BuildFrom(EmptyMap, expected, categories,
                                         top_n, 1)

\* a {"players": [...]} payload with a goalie and a record that is none has
\* been processed
C8_Witness ==
    /\ pc = "idle"
    /\ resp # JNull
    /\ resp.t = "obj"
    /\ "players" \in DOMAIN resp.o
    /\ Flagged(ShapedList(resp)) # <<>>
    /\ Len(Flagged(ShapedList(resp))) < Len(ShapedList(resp))
    /\ NonEmpty(data)

\* C9: a cycle that received a 200 response does not fail, whatever the
\* payload's shape; an unrecognized or malformed one gives an empty result.
C9_ShapeNeverFailsCycle ==
    /\ last_cycle # "raised"
    /\ (pc \in {"idle", "not_ready"} /\ resp # JNull) =>
           last_update_success /\ ~not_ready

\* C10: a setup refresh that ended in a connection error has raised the
\* not-ready signal and registered nothing; a poll cycle never raises it.
C10_UnreachableSetupIsNotReady ==
    \A c \in cycles :
        /\ (c.phase = "setup" /\ c.kind = "client_error") =>
               not_ready /\ ~registered /\ pc = "not_ready"
        /\ c.phase = "poll" => ~not_ready /\ pc # "not_ready"

=============================================================================
